---- MODULE Spec2Model ----
(***************************************************************************)
(* A model of scripts/scraper.py: the wishlist scraper's run loop          *)
(* (wishlists, pages, items), its per-field extraction, clean_price, and   *)
(* update_product_in_postgresql writing product_data and                   *)
(* product_data_history through one psycopg2 connection per wishlist.      *)
(*                                                                         *)
(* Text is a sequence of one-character strings.  A decimal (a Python float *)
(* obtained from decimal text) is a record [n, s] standing for n / 10^s,   *)
(* kept normalised so that equal numbers are equal records.                *)
(***************************************************************************)
EXTENDS Integers, Sequences, FiniteSets, TLC

\* ------------------------------------------------------------------ bounds
MaxLen == 5
NumLines == 2
MaxPages == 2
MaxItems == 2
MaxWrites == 2
RunWrites == 1
RunPages == 1

\* ------------------------------------------------------- values and text
None == "None"
NoneStr == <<"None">>
NoneDec == [none |-> TRUE]

Digits == {"0", "1", "2", "3", "4", "5", "6", "7", "8", "9"}

DigitVal(c) ==
    CASE c = "0" -> 0 [] c = "1" -> 1 [] c = "2" -> 2 [] c = "3" -> 3
      [] c = "4" -> 4 [] c = "5" -> 5 [] c = "6" -> 6 [] c = "7" -> 7
      [] c = "8" -> 8 [] c = "9" -> 9

RECURSIVE Pow10(_)
Pow10(k) == IF k = 0 THEN 1 ELSE 10 * Pow10(k - 1)

RECURSIVE NormDec(_, _)
NormDec(n, s) ==
    IF s > 0 /\ n % 10 = 0 THEN NormDec(n \div 10, s - 1) ELSE [n |-> n, s |-> s]

Dec(n, s) == NormDec(n, s)

RECURSIVE DigitsToNat(_)
DigitsToNat(str) ==
    IF str = <<>> THEN 0
    ELSE 10 * DigitsToNat(SubSeq(str, 1, Len(str) - 1)) + DigitVal(str[Len(str)])

IsDigit(c) == c \in Digits

CountDots(str) == Cardinality({i \in 1..Len(str) : str[i] = "."})

FirstDot(str) ==
    IF CountDots(str) = 0 THEN 0
    ELSE CHOOSE i \in 1..Len(str) :
            str[i] = "." /\ \A j \in 1..(i - 1) : str[j] # "."

\* float(text) for text made of digits and dots: the value, or the ValueError
FloatOk(str) ==
    /\ \A i \in 1..Len(str) : IsDigit(str[i]) \/ str[i] = "."
    /\ CountDots(str) <= 1
    /\ \E i \in 1..Len(str) : IsDigit(str[i])

FloatVal(str) ==
    LET d == FirstDot(str)
        whole == IF d = 0 THEN str ELSE SubSeq(str, 1, d - 1)
        frac == IF d = 0 THEN <<>> ELSE SubSeq(str, d + 1, Len(str))
    IN Dec(DigitsToNat(whole \o frac), Len(frac))

\* re.sub(r'[^\d.]', '', price)
StripNonNumeric(str) == SelectSeq(str, LAMBDA c : IsDigit(c) \/ c = ".")

\* re.sub(r'\.+', '.', price): every run of dots becomes one dot
RECURSIVE CollapseDots(_)
CollapseDots(str) ==
    IF Len(str) <= 1 THEN str
    ELSE IF str[1] = "." /\ str[2] = "." THEN CollapseDots(Tail(str))
    ELSE <<str[1]>> \o CollapseDots(Tail(str))

clean_price(price) ==
    IF price = NoneStr \/ price = <<>> THEN NoneDec
    ELSE LET cleaned == CollapseDots(StripNonNumeric(price))
         IN IF cleaned = <<>> THEN NoneDec
            ELSE IF FloatOk(cleaned) THEN FloatVal(cleaned)
            ELSE NoneDec

\* ---------------------------------------------------------- text helpers
FirstIdx(str, t) ==
    IF \E i \in 1..Len(str) : str[i] = t
    THEN CHOOSE i \in 1..Len(str) : str[i] = t /\ \A j \in 1..(i - 1) : str[j] # t
    ELSE 0

LastIdx(str, t) ==
    IF \E i \in 1..Len(str) : str[i] = t
    THEN CHOOSE i \in 1..Len(str) : str[i] = t /\ \A j \in (i + 1)..Len(str) : str[j] # t
    ELSE 0

Contains(str, t) == \E i \in 1..Len(str) : str[i] = t

\* str.split(t)[-1]
AfterLast(str, t) == SubSeq(str, LastIdx(str, t) + 1, Len(str))

\* str.split(t)[0]
BeforeFirst(str, t) ==
    IF FirstIdx(str, t) = 0 THEN str ELSE SubSeq(str, 1, FirstIdx(str, t) - 1)

\* str.split(t)[1], for str containing t
SplitSecond(str, t) ==
    BeforeFirst(SubSeq(str, FirstIdx(str, t) + 1, Len(str)), t)

\* str.replace(t, '')
Remove(str, t) == SelectSeq(str, LAMBDA c : c # t)

\* str.strip()
RECURSIVE LStrip(_)
LStrip(str) ==
    IF str # <<>> /\ str[1] = " " THEN LStrip(Tail(str)) ELSE str

RECURSIVE RStrip(_)
RStrip(str) ==
    IF str # <<>> /\ str[Len(str)] = " "
    THEN RStrip(SubSeq(str, 1, Len(str) - 1)) ELSE str

Strip(str) == RStrip(LStrip(str))

\* int(text): the digits' value, or the ValueError
IntOk(str) == str # <<>> /\ \A i \in 1..Len(str) : IsDigit(str[i])

\* the maximal run of digits of str starting at position i
RECURSIVE DigitRun(_, _)
DigitRun(str, i) ==
    IF i <= Len(str) /\ IsDigit(str[i]) THEN <<str[i]>> \o DigitRun(str, i + 1)
    ELSE <<>>

\* a DOM element that find_element did not find, and one it found
Missing == [found |-> FALSE]
Elem(text) == [found |-> TRUE, text |-> text]

Falsy(text) == text = NoneStr \/ text = <<>>

Zero == Dec(0, 0)

\* ------------------------------------------------- per-field extraction
\* Each field's try block yields [exc |-> e, ...]: e is "" when the block ends
\* normally (its NoSuchElementException handler included), else the name of the
\* exception that leaves the block.

\* the token of an identifier segment ('' for the empty segment)
SegmentText(seg) == IF seg = <<>> THEN "" ELSE seg[1]

JsVoid == <<"javascript:void(0)">>

AsinTitleField(a) ==
    IF ~a.found THEN [exc |-> "", title |-> "", asin |-> None, link |-> JsVoid]
    ELSE IF a.title = None
    THEN [exc |-> "AttributeError", title |-> "", asin |-> None, link |-> JsVoid]
    ELSE IF a.href = NoneStr
    THEN [exc |-> "TypeError", title |-> a.title, asin |-> None, link |-> a.href]
    ELSE [exc |-> "", title |-> a.title, link |-> a.href,
          asin |-> IF Contains(a.href, "dp/")
                   THEN SegmentText(BeforeFirst(AfterLast(a.href, "dp/"), "/"))
                   ELSE None]

SubtitleField(e) ==
    IF ~e.found THEN <<"No subtitle">> ELSE Remove(Strip(e.text), "by ")

PriceField(p) ==
    LET byAttr == p.data
        needSpan == Falsy(byAttr)
        bySpan == IF needSpan /\ p.offscreen.found
                  THEN Remove(Remove(Strip(p.offscreen.text), "$"), ",")
                  ELSE byAttr
        needParts == Falsy(bySpan)
        whole == Strip(p.whole.text)
        fraction == Strip(p.fraction.text)
        byParts == IF needParts
                   THEN IF whole # <<>> /\ fraction # <<>>
                        THEN whole \o <<".">> \o fraction ELSE NoneStr
                   ELSE bySpan
    IN IF needSpan /\ ~p.offscreen.found THEN Zero
       ELSE IF needParts /\ (~p.whole.found \/ ~p.fraction.found) THEN Zero
       ELSE IF clean_price(byParts) = NoneDec THEN Zero
       ELSE clean_price(byParts)

StockField(e) == IF e.found THEN "In Stock" ELSE "Unknown stock status"

\* reviews, needs_product, has_product
CountField(e) ==
    IF ~e.found THEN 0
    ELSE LET t == Remove(Strip(e.text), ",")
         IN IF IntOk(t) THEN DigitsToNat(t) ELSE 0

\* re.search(r'was \$(\d+\.?\d*)', text): where it matches, and group(1)
WasMatches(text) ==
    {i \in 1..Len(text) :
        /\ text[i] = "was "
        /\ i + 2 <= Len(text)
        /\ text[i + 1] = "$"
        /\ IsDigit(text[i + 2])}

WasGroup(text) ==
    LET i == CHOOSE k \in WasMatches(text) : \A j \in WasMatches(text) : k <= j
        whole == DigitRun(text, i + 2)
        next == i + 2 + Len(whole)
    IN IF next <= Len(text) /\ text[next] = "."
       THEN whole \o <<".">> \o DigitRun(text, next + 1)
       ELSE whole

\* re.search(r'Price dropped (\d+)%', text)
DropMatches(text) ==
    {i \in 1..Len(text) :
        /\ text[i] = "Price dropped "
        /\ DigitRun(text, i + 1) # <<>>
        /\ i + 1 + Len(DigitRun(text, i + 1)) <= Len(text)
        /\ text[i + 1 + Len(DigitRun(text, i + 1))] = "%"}

DropGroup(text) ==
    LET i == CHOOSE k \in DropMatches(text) : \A j \in DropMatches(text) : k <= j
    IN DigitRun(text, i + 1)

PriceDropField(e, price) ==
    IF ~e.found THEN [exc |-> "", price_added |-> price, price_drop_percent |-> Zero]
    ELSE IF Contains(e.text, "was ") /\ WasMatches(e.text) = {}
    THEN [exc |-> "AttributeError", price_added |-> price, price_drop_percent |-> Zero]
    ELSE LET was == IF Contains(e.text, "was ") THEN WasGroup(e.text) ELSE NoneStr
             cleaned == clean_price(was)
         IN [exc |-> "",
             price_added |-> IF cleaned = NoneDec THEN price ELSE cleaned,
             price_drop_percent |->
                 IF DropMatches(e.text) # {}
                 THEN Dec(DigitsToNat(DropGroup(e.text)), 2)
                 ELSE Zero]

\* datetime.strptime(text, '%B %d, %Y') on the dates of the model
DateTable(t) ==
    CASE t = <<"March 5, 2024">> -> "2024-03-05 00:00:00"
      [] t = <<"July 14, 2023">> -> "2023-07-14 00:00:00"
      [] OTHER -> None

DateField(e) ==
    IF ~e.found THEN None
    ELSE LET t == Remove(Strip(e.text), "Item added ")
         IN IF t = <<>> THEN None ELSE DateTable(t)

ImageField(e) == IF ~e.found THEN None ELSE e.src

StarsField(e) ==
    IF ~e.found THEN [exc |-> "", stars |-> NoneDec]
    ELSE LET label == Strip(e.text)
             first == BeforeFirst(label, " ")
         IN IF label = <<>> THEN [exc |-> "", stars |-> NoneDec]
            ELSE IF FloatOk(first) THEN [exc |-> "", stars |-> FloatVal(first)]
            ELSE [exc |-> "ValueError", stars |-> NoneDec]

RECURSIVE TwisterScan(_, _, _, _)
TwisterScan(texts, i, pattern, style) ==
    IF i > Len(texts) THEN [pattern |-> pattern, style |-> style]
    ELSE LET t == Strip(texts[i])
             p == IF Contains(t, "Pattern Name")
                  THEN IF Contains(t, ":") THEN Strip(SplitSecond(t, ":"))
                       ELSE <<"No pattern">>
                  ELSE pattern
             s == IF Contains(t, "Style")
                  THEN IF Contains(t, ":") THEN Strip(SplitSecond(t, ":"))
                       ELSE <<"No style">>
                  ELSE style
         IN TwisterScan(texts, i + 1, p, s)

PatternStyleField(texts) == TwisterScan(texts, 1, <<"No pattern">>, <<"No style">>)

Truthy(asin) == asin # None /\ asin # ""

AffiliateSuffix == <<"&linkCode=ll1&tag=prographer-20">>

\* One pass of the item loop's body up to the product_data dictionary:
\* raised is TRUE when an exception leaves a field's try block and reaches the
\* item-level handler, and product_data is then never built.
ExtractItem(f, wishlist_name) ==
    LET at == AsinTitleField(f.anchor)
        price == PriceField(f.price)
        drop == PriceDropField(f.drop, price)
        st == StarsField(f.stars)
        tw == PatternStyleField(f.twister)
        exc == IF at.exc # "" THEN at.exc
               ELSE IF drop.exc # "" THEN drop.exc
               ELSE st.exc
    IN [raised |-> exc # "",
        exc |-> exc,
        product_data |->
           [title |-> at.title,
            price |-> price,
            price_added |-> drop.price_added,
            price_drop_percent |-> drop.price_drop_percent,
            link |-> at.link,
            asin |-> at.asin,
            image_url |-> ImageField(f.image),
            reviews |-> CountField(f.reviews),
            date_added |-> DateField(f.date),
            stock_status |-> StockField(f.prime),
            stars |-> st.stars,
            pattern |-> tw.pattern,
            style |-> tw.style,
            subtitle |-> SubtitleField(f.byline),
            needs_product |-> CountField(f.needs),
            has_product |-> CountField(f.has),
            affiliate_link |-> IF Truthy(at.asin) THEN at.link \o AffiliateSuffix
                               ELSE NoneStr,
            wishlist_name |-> IF wishlist_name = "" THEN "Unknown Wishlist"
                              ELSE wishlist_name]]

\* the values dictionary update_product_in_postgresql binds to the statement
Values(product_data) ==
    LET price == IF product_data.price # NoneDec THEN product_data.price ELSE Zero
    IN [asin |-> product_data.asin,
        title |-> product_data.title,
        price |-> price,
        stock_status |-> product_data.stock_status,
        date_added |-> product_data.date_added,
        product_link |-> product_data.link,
        affiliate_link |-> product_data.affiliate_link,
        image_url |-> product_data.image_url,
        reviews |-> product_data.reviews,
        stars |-> product_data.stars,
        pattern |-> product_data.pattern,
        style |-> product_data.style,
        subtitle |-> product_data.subtitle,
        price_added |-> IF product_data.price_added # NoneDec
                        THEN product_data.price_added ELSE price,
        price_drop_percent |-> IF product_data.price_drop_percent # NoneDec
                               THEN product_data.price_drop_percent ELSE Zero,
        needs_product |-> product_data.needs_product,
        has_product |-> product_data.has_product,
        wishlist_name |-> product_data.wishlist_name]

\* ------------------------------------------------------ the pages' items
HrefA == <<"https://www.amazon.com/", "dp/", "A", "/", "?coliid=I1">>
HrefB == <<"https://www.amazon.com/", "dp/", "B">>
HrefNoDp == <<"https://www.amazon.com/", "gp/", "product">>
HrefEmptyAsin == <<"https://www.amazon.com/", "dp/">>

Anchor(title, href) == [found |-> TRUE, title |-> title, href |-> href]

Anchors ==
    {Missing, Anchor(None, HrefA), Anchor("Mug", NoneStr), Anchor("Mug", HrefNoDp),
     Anchor("Mug", HrefEmptyAsin), Anchor("Mug", HrefA), Anchor("Lamp", HrefB)}

PriceParts ==
    [data : {NoneStr, <<>>, <<"N", "/", "A">>, <<"9", ".", "9", "9">>},
     offscreen : {Missing, Elem(<<>>),
                  Elem(<<"$", "1", ",", "2", "3", "4", ".", "5", "0">>)},
     whole : {Missing, Elem(<<"1", "2", ".">>)},
     fraction : {Missing, Elem(<<"4", "9">>)}]

DropTexts ==
    {<<"Price dropped ", "2", "5", "%", " (", "was ", "$", "1", "2", ".", "5", "0",
       " when added to List)">>,
     <<"Price dropped ", "1", "5", "0", "%", " (", "was ", "$", "2", ")">>,
     <<"Price dropped ", "1", "0", "%", " (", "was ", "EUR 5", ")">>,
     <<"Price dropped ", "1", "0", "%">>,
     <<"Price drop", " (", "was ", "$", "3", ")">>,
     <<"Lower price">>}

StarsLabels ==
    {<<"4", ".", "5", " ", "out of 5 stars">>,
     <<"Rated", " ", "4", ".", "5", " ", "out of 5 stars">>}

TwisterLists ==
    {<<>>,
     << <<"Pattern Name", ":", " ", "Dots">> >>,
     << <<"Style", ":", " ", "Tall">> >>,
     << <<"Pattern Name", ":", " ", "Dots">>, <<"Style", ":", " ", "Tall">> >>,
     << <<"Pattern Name">> >>}

FieldDomain ==
    [anchor |-> Anchors,
     price |-> PriceParts,
     drop |-> {Missing} \cup {Elem(t) : t \in DropTexts},
     stars |-> {Missing} \cup {Elem(t) : t \in StarsLabels},
     byline |-> {Missing, Elem(<<"by ", "Ann">>)},
     prime |-> {Missing, [found |-> TRUE]},
     reviews |-> {Missing, Elem(<<"1", ",", "2", "3", "4">>), Elem(<<"n", "/", "a">>)},
     needs |-> {Missing, Elem(<<"2">>)},
     has |-> {Missing, Elem(<<"1">>)},
     date |-> {Missing, Elem(<<"Item added ", "March 5, 2024">>),
               Elem(<<"Item added ", "yesterday">>), Elem(<<"Item added ">>)},
     image |-> {Missing, [found |-> TRUE, src |-> None],
                [found |-> TRUE, src |-> "https://m.media-amazon.com/I/1.jpg"]},
     twister |-> TwisterLists]

BaseItem ==
    [anchor |-> Anchor("Mug", HrefA),
     price |-> [data |-> <<"9", ".", "9", "9">>, offscreen |-> Missing,
                whole |-> Missing, fraction |-> Missing],
     drop |-> Missing,
     stars |-> Elem(<<"4", ".", "5", " ", "out of 5 stars">>),
     byline |-> Elem(<<"by ", "Ann">>),
     prime |-> [found |-> TRUE],
     reviews |-> Elem(<<"1", ",", "2", "3", "4">>),
     needs |-> Elem(<<"2">>),
     has |-> Elem(<<"1">>),
     date |-> Elem(<<"Item added ", "March 5, 2024">>),
     image |-> [found |-> TRUE, src |-> "https://m.media-amazon.com/I/1.jpg"],
     twister |-> <<>>]

\* the items that differ from BaseItem in at most two sub-elements
ExtractItems ==
    UNION {UNION {{[[BaseItem EXCEPT ![k1] = v1] EXCEPT ![k2] = v2] :
                      v1 \in FieldDomain[k1], v2 \in FieldDomain[k2]} :
                  k2 \in DOMAIN FieldDomain} :
           k1 \in DOMAIN FieldDomain}

\* the items the pages of a run show
RunItems ==
    {BaseItem,
     [BaseItem EXCEPT !.price.data = NoneStr,
                      !.price.offscreen =
                          Elem(<<"$", "1", ",", "2", "3", "4", ".", "5", "0">>),
                      !.drop = Elem(<<"Price dropped ", "1", "5", "0", "%", " (",
                                      "was ", "$", "2", ")">>)],
     [BaseItem EXCEPT !.anchor = Anchor("Lamp", HrefB)],
     [BaseItem EXCEPT !.anchor = Missing],
     [BaseItem EXCEPT !.anchor = Anchor(None, HrefA)]}

NoItem == [found |-> FALSE]
NoExtract == [raised |-> FALSE, exc |-> "", product_data |-> [asin |-> None]]

\* --------------------------------------------------------------- state
VARIABLES
    price_in,       \* clean_price: its argument
    price_out,      \* clean_price: what it returned
    file,           \* wishlist_URL.txt: [exists, lines], a line is [url, hash]
    wishlist_urls,  \* the addresses get_wishlist_url returned
    urlIdx,         \* position of the for loop over wishlist_urls
    pc,             \* where the script is
    attempt,        \* retry_request: driver.get calls made for this address
    page_name,      \* text of span#profile-list-name on the pages, or None
    wishlist_name,
    pageNo,         \* pages of this wishlist loaded so far
    nItems,         \* len(items_details) of the page
    idx,            \* position of the for loop over the page's items
    item,           \* the DOM of the item at idx
    extracted,      \* outcome of the item's extraction (raised / product_data)
    committed,      \* the store as committed: [cur, hist]
    work,           \* the store as the open transaction of conn sees it
    txState,        \* "closed", "idle", "open" or "aborted"
    old_data,       \* the statement's old_data rows
    now,            \* statements executed so far; NOW() of the statement
    okLog,          \* values of the statements reported as updated/added
    failedAt,       \* Len(okLog) when a statement of this wishlist failed, or -1
    pageFailed,     \* the page loop of this wishlist ended on a page-level failure
    quiet,          \* the --quiet flag
    logged          \* the log calls of the last step: [event, level, shown]

vars ==
    <<price_in, price_out, file, wishlist_urls, urlIdx, pc, attempt, page_name,
      wishlist_name,
      pageNo, nItems, idx, item, extracted, committed, work, txState, old_data, now,
      okLog, failedAt, pageFailed, quiet, logged>>

priceVars == <<price_in, price_out>>

fileVars == <<file, page_name, wishlist_urls, urlIdx>>

pageVars == <<wishlist_name, pageNo, nItems, idx, item, extracted>>

storeVars == <<committed, work, txState, old_data, now, okLog, failedAt>>

EmptyStore == [cur |-> {}, hist |-> <<>>]

retries == 3

Urls == 1..NumLines

Line(u, h) == [url |-> u, hash |-> h]

\* the input files: one address per line, the first k of them commented by
\* earlier runs, or no file
Files ==
    {[exists |-> FALSE, lines |-> <<>>]} \cup
    {[exists |-> TRUE, lines |-> [i \in 1..NumLines |-> Line(i, i <= k)]] :
        k \in 0..NumLines}

RunInit ==
    /\ wishlist_urls = <<>>
    /\ urlIdx = 0
    /\ attempt = 0
    /\ pageNo = 0
    /\ nItems = 0
    /\ idx = 0
    /\ extracted = NoExtract
    /\ committed = EmptyStore
    /\ work = EmptyStore
    /\ txState = "closed"
    /\ old_data = {}
    /\ now = 0
    /\ okLog = <<>>
    /\ failedAt = -1
    /\ pageFailed = FALSE
    /\ logged = {}

\* a run without --quiet; SpecQuiet below starts with either setting
Init ==
    /\ RunInit
    /\ quiet = FALSE
    /\ pc = "start"
    /\ file \in Files
    /\ page_name \in {"Gifts", None}
    /\ wishlist_name = ""
    /\ item = NoItem
    /\ price_in = NoneStr
    /\ price_out = NoneDec



\* --------------------------------------------------------------- store
\* WITH old_data AS (SELECT ... FROM product_data WHERE asin = %(asin)s)
OldData(cur, asin) == {r \in cur : r.asin = asin}

\* INSERT INTO product_data ... ON CONFLICT (asin) DO UPDATE SET ...
Upsert(cur, values) == {r \in cur : r.asin # values.asin} \cup {values}

HistoryRow(r, t) == [data |-> r, updated_at |-> t]

\* InsertHistory as it would be if it selected the new values, not old_data
InsertHistoryOfNew(hist, old, values, t) ==
    IF old = {} THEN hist ELSE Append(hist, HistoryRow(values, t))

\* INSERT INTO product_data_history ... SELECT ..., NOW() FROM old_data
InsertHistory(hist, old, values, t) ==
    IF old = {} THEN hist
    ELSE Append(hist, HistoryRow(CHOOSE r \in old : TRUE, t))

\* conn_commit as it would be if COMMIT made an aborted transaction's work durable
conn_commit_aborted_work(c, w, t) ==
    IF t \in {"open", "aborted"} THEN [committed |-> w, work |-> w, txState |-> "idle"]
    ELSE [committed |-> c, work |-> w, txState |-> t]

\* conn_commit as it would be if COMMIT left an aborted transaction aborted
conn_commit_stays_aborted(c, w, t) ==
    IF t = "open" THEN [committed |-> w, work |-> w, txState |-> "idle"]
    ELSE [committed |-> c, work |-> w, txState |-> t]

\* conn.commit(): COMMIT makes the transaction's work durable; COMMIT of a
\* transaction a failed statement has aborted rolls it back
conn_commit(c, w, t) ==
    IF t = "open" THEN [committed |-> w, work |-> w, txState |-> "idle"]
    ELSE IF t = "aborted" THEN [committed |-> c, work |-> c, txState |-> "idle"]
    ELSE [committed |-> c, work |-> w, txState |-> t]

\* ItemCommit as it would be with the commit left to the end of the wishlist
ItemCommitDeferred(c, w, t) == [committed |-> c, work |-> w, txState |-> t]

\* the conn.commit() of the item loop, after update_product_in_postgresql
ItemCommit(c, w, t) == conn_commit(c, w, t)

\* CallsUpdate as it would be without the `if asin:` test
CallsUpdateAlways(asin) == TRUE

\* `if asin:` of the item loop
CallsUpdate(asin) == Truthy(asin)

\* RetriesExhausted as it would be with the loop running once more
RetriesExhaustedLate(calls) == calls > retries

\* retry_request's for loop is over after this many driver.get calls
RetriesExhausted(calls) == calls >= retries

\* --------------------------------------------------------------- the log
\* qprint prints the message unless quiet is set and the level is not 'error'
qprint(q, level) == ~q \/ level = "error"

\* one call of qprint: what it is about, the level passed, whether it printed
LogCall(q, event, level) ==
    [event |-> event, level |-> level, shown |-> qprint(q, level)]

\* a bare print: no level, and quiet is not consulted
PlainCall(event) == [event |-> event, level |-> "print", shown |-> TRUE]

\* the handlers of update_product_in_postgresql pass no level to qprint
StoreFailureLevel == "info"

\* the price block ends in its NoSuchElementException handler
PriceNotFound(p) ==
    LET needSpan == Falsy(p.data)
        bySpan == IF needSpan /\ p.offscreen.found
                  THEN Remove(Remove(Strip(p.offscreen.text), "$"), ",")
                  ELSE p.data
    IN \/ needSpan /\ ~p.offscreen.found
       \/ Falsy(bySpan) /\ (~p.whole.found \/ ~p.fraction.found)

\* the level each field's try block logs at, in the order of the loop body;
\* "raise" where an exception leaves the block
FieldLevels(f) ==
    LET price == PriceField(f.price)
        lv(e) == IF e.found THEN "info" ELSE "warning"
    IN << IF AsinTitleField(f.anchor).exc # "" THEN "raise"
          ELSE IF f.anchor.found THEN "info" ELSE "error",
          lv(f.byline),
          IF PriceNotFound(f.price) THEN "warning" ELSE "info",
          lv(f.prime),
          lv(f.reviews),
          lv(f.needs),
          lv(f.has),
          IF PriceDropField(f.drop, price).exc # "" THEN "raise" ELSE lv(f.drop),
          IF f.date.found
                /\ (Remove(Strip(f.date.text), "Item added ") = <<>>
                       \/ DateField(f.date) # None)
          THEN "info" ELSE "warning",
          lv(f.image),
          IF StarsField(f.stars).exc # "" THEN "raise" ELSE lv(f.stars),
          "info",
          "info" >>

\* the log calls of one pass of the item loop's body, the item-level handler
\* included
ExtractLog(f, q) ==
    LET lvs == FieldLevels(f)
        raises == {i \in 1..Len(lvs) : lvs[i] = "raise"}
        stop == IF raises = {} THEN Len(lvs) + 1
                ELSE CHOOSE i \in raises : \A j \in raises : i <= j
    IN {LogCall(q, "field", lvs[i]) : i \in 1..(stop - 1)}
          \cup IF raises = {} THEN {} ELSE {LogCall(q, "item_failed", "error")}

\* --------------------------------------------------------------- the run
\* the items a page may show: once MaxWrites statements have run, only items
\* that reach no statement
Writes(f) ==
    LET r == ExtractItem(f, "Gifts")
    IN ~r.raised /\ Truthy(r.product_data.asin)

\* statements explored in a run: MaxWrites when one address is processed,
\* RunWrites when several are
WriteCap == IF Len(wishlist_urls) <= 1 THEN MaxWrites ELSE RunWrites

\* pages explored per wishlist: MaxPages when one address is processed,
\* RunPages when several are
PageCap == IF Len(wishlist_urls) <= 1 THEN MaxPages ELSE RunPages

AllowedItems ==
    IF now < WriteCap THEN RunItems ELSE {f \in RunItems : ~Writes(f)}

NextWishlist ==
    /\ urlIdx' = urlIdx + 1
    /\ pc' = IF urlIdx < Len(wishlist_urls) THEN "wishlist" ELSE "done"

\* the for loop over the page's items moves on
NextItem ==
    IF idx < nItems
    THEN /\ \E f \in AllowedItems : item' = f
         /\ idx' = idx + 1
         /\ extracted' = NoExtract
         /\ pc' = "item"
    ELSE /\ item' = NoItem
         /\ idx' = idx
         /\ extracted' = NoExtract
         /\ pc' = "next_page"

get_wishlist_url ==
    /\ pc = "start"
    /\ LET open == SelectSeq(file.lines, LAMBDA l : ~l.hash)
           urls == [i \in 1..Len(open) |-> open[i].url]
       IN IF ~file.exists \/ urls = <<>>
          THEN /\ pc' = "exit1"
               /\ logged' = {LogCall(quiet, "input_error", "error")}
               /\ UNCHANGED <<wishlist_urls, urlIdx>>
          ELSE /\ wishlist_urls' = urls
               /\ urlIdx' = 1
               /\ pc' = "wishlist"
               /\ logged' = {}
    /\ UNCHANGED <<priceVars, file, page_name, attempt, pageVars, storeVars, pageFailed,
                   quiet>>

\* the browser is started and https://www.amazon.com loaded, outside any try
OpenBrowser ==
    /\ pc = "wishlist"
    /\ \E loaded \in BOOLEAN, cookies \in BOOLEAN :
          IF loaded
          THEN /\ pc' = "retry"
               /\ logged' = {LogCall(quiet, "processing", "info"),
                             LogCall(quiet, "cookies",
                                     IF cookies THEN "info" ELSE "warning")}
          ELSE /\ pc' = "crashed"
               /\ logged' = {LogCall(quiet, "processing", "info")}
    /\ attempt' = 0
    /\ pageFailed' = FALSE
    /\ UNCHANGED <<priceVars, fileVars, pageVars, storeVars, quiet>>

\* one pass of retry_request's loop, and the caller's `continue` on failure
retry_request ==
    /\ pc = "retry"
    /\ attempt' = attempt + 1
    /\ \E loaded \in BOOLEAN :
          IF loaded
          THEN /\ pc' = "prepare"
               /\ logged' = {}
               /\ UNCHANGED urlIdx
          ELSE IF RetriesExhausted(attempt + 1)
          THEN /\ NextWishlist
               /\ logged' = {PlainCall("retry_notice"),
                             LogCall(quiet, "load_failed", "error")}
          ELSE /\ pc' = "retry"
               /\ logged' = {PlainCall("retry_notice")}
               /\ UNCHANGED urlIdx
    /\ UNCHANGED <<priceVars, file, page_name, wishlist_urls, pageVars, storeVars,
                   pageFailed, quiet>>

\* connect_to_db and the wishlist name
Prepare ==
    /\ pc = "prepare"
    /\ \E connected \in BOOLEAN :
          IF connected
          THEN /\ pc' = "page"
               /\ txState' = "idle"
               /\ work' = committed
               /\ wishlist_name' = IF page_name = None THEN "Unknown Wishlist"
                                   ELSE page_name
               /\ pageNo' = 1
               /\ failedAt' = -1
               /\ logged' = {LogCall(quiet, "cookies", "info"),
                             LogCall(quiet, "connected", "info"),
                             IF page_name = None
                             THEN LogCall(quiet, "name_error", "error")
                             ELSE LogCall(quiet, "name", "info")}
          ELSE /\ pc' = "exit1"
               /\ logged' = {LogCall(quiet, "cookies", "info"),
                             LogCall(quiet, "connect_error", "error")}
               /\ UNCHANGED <<txState, work, wishlist_name, pageNo, failedAt>>
    /\ UNCHANGED <<priceVars, fileVars, attempt, nItems, idx, item, extracted,
                   committed, old_data, now, okLog, pageFailed, quiet>>

\* a `break` of the page loop leads to the code after the loop
AfterPageFailureExits == "exit1"

AfterPageFailure == "finish"

\* the head of the page loop: the two element collections and their checks
LoadPage ==
    /\ pc = "page"
    /\ \E titles \in 0..MaxItems, details \in 0..MaxItems, timeout \in BOOLEAN :
          IF timeout \/ titles = 0 \/ details = 0 \/ titles # details
          THEN /\ pageFailed' = TRUE
               /\ pc' = AfterPageFailure
               /\ logged' = {IF timeout THEN LogCall(quiet, "page_error", "error")
                             ELSE IF titles = 0 \/ details = 0
                             THEN LogCall(quiet, "no_items", "warning")
                             ELSE LogCall(quiet, "mismatch", "error")}
               /\ UNCHANGED <<nItems, idx, item>>
          ELSE /\ nItems' = details
               /\ idx' = 1
               /\ \E f \in AllowedItems : item' = f
               /\ pc' = "item"
               /\ logged' = {}
               /\ UNCHANGED pageFailed
    /\ UNCHANGED <<priceVars, fileVars, attempt, wishlist_name, pageNo, extracted,
                   storeVars, quiet>>

\* One item up to the start of cursor.execute: the per-field try blocks, the
\* item-level handler, `if asin:`, and update_product_in_postgresql as far as
\* the statement's snapshot of product_data
ProcessItem ==
    /\ pc = "item"
    /\ LET r == ExtractItem(item, wishlist_name)
           lines == ExtractLog(item, quiet)
       IN IF r.raised \/ ~CallsUpdate(r.product_data.asin)
          THEN /\ NextItem
               /\ logged' = lines
               /\ UNCHANGED <<txState, old_data, now, failedAt>>
          ELSE /\ extracted' = r
               /\ UNCHANGED <<idx, item>>
               /\ IF r.product_data.asin = None
                  THEN /\ pc' = "commit"
                       /\ logged' = lines \cup {LogCall(quiet, "invalid_asin", "info")}
                       /\ UNCHANGED <<txState, old_data, now, failedAt>>
                  ELSE IF txState = "aborted"
                  THEN /\ pc' = "commit"
                       /\ failedAt' = Len(okLog)
                       /\ logged' = lines \cup
                              {LogCall(quiet, "store_failure", StoreFailureLevel)}
                       /\ UNCHANGED <<txState, old_data, now>>
                  ELSE /\ pc' = "upsert"
                       /\ txState' = "open"
                       /\ old_data' = OldData(work.cur, r.product_data.asin)
                       /\ now' = now + 1
                       /\ logged' = lines
                       /\ UNCHANGED failedAt
    /\ UNCHANGED <<priceVars, fileVars, attempt, wishlist_name, pageNo, nItems,
                   committed, work, okLog, pageFailed, quiet>>

ExecUpsert ==
    /\ pc = "upsert"
    /\ work' = [work EXCEPT !.cur = Upsert(@, Values(extracted.product_data))]
    /\ pc' = "history"
    /\ logged' = {}
    /\ UNCHANGED <<priceVars, fileVars, attempt, pageVars, committed, txState,
                   old_data, now, okLog, failedAt, pageFailed, quiet>>

ExecHistory ==
    /\ pc = "history"
    /\ work' = [work EXCEPT !.hist =
                   InsertHistory(@, old_data, Values(extracted.product_data), now)]
    /\ okLog' = Append(okLog, Values(extracted.product_data))
    /\ old_data' = {}
    /\ pc' = "commit"
    /\ logged' = {LogCall(quiet, "store_ok", "info")}
    /\ UNCHANGED <<priceVars, fileVars, attempt, pageVars, committed, txState, now,
                   failedAt, pageFailed, quiet>>

\* the server reports an error while the statement runs: the transaction is
\* aborted and the handler of update_product_in_postgresql logs the failure
StatementFails ==
    /\ pc \in {"upsert", "history"}
    /\ txState' = "aborted"
    /\ failedAt' = Len(okLog)
    /\ old_data' = {}
    /\ pc' = "commit"
    /\ logged' = {LogCall(quiet, "store_failure", StoreFailureLevel)}
    /\ UNCHANGED <<priceVars, fileVars, attempt, pageVars, committed, work, now,
                   okLog, pageFailed, quiet>>

CommitItem ==
    /\ pc = "commit"
    /\ LET r == ItemCommit(committed, work, txState)
       IN /\ committed' = r.committed
          /\ work' = r.work
          /\ txState' = r.txState
    /\ NextItem
    /\ logged' = {}
    /\ UNCHANGED <<priceVars, fileVars, attempt, wishlist_name, pageNo, nItems,
                   old_data, now, okLog, failedAt, pageFailed, quiet>>

\* the next page button, waited for and clicked, or judged absent
NextPage ==
    /\ pc = "next_page"
    /\ \E clickable \in BOOLEAN :
          IF clickable /\ pageNo < PageCap
          THEN /\ pageNo' = pageNo + 1
               /\ pc' = "page"
               /\ logged' = {}
          ELSE /\ pc' = "finish"
               /\ logged' = {LogCall(quiet, "no_next_page", "info")}
               /\ UNCHANGED pageNo
    /\ UNCHANGED <<priceVars, fileVars, attempt, wishlist_name, nItems, idx, item,
                   extracted, storeVars, pageFailed, quiet>>

mark_url_as_scraped(f, scraped_url) ==
    [f EXCEPT !.lines =
        [i \in 1..Len(f.lines) |->
            IF ~f.lines[i].hash /\ f.lines[i].url = scraped_url
            THEN Line(f.lines[i].url, TRUE)
            ELSE f.lines[i]]]

\* after the page loop: the last commit, the connection and the browser are
\* closed and the address is marked
FinishWishlist ==
    /\ pc = "finish"
    /\ LET r == conn_commit(committed, work, txState)
       IN /\ committed' = r.committed
          /\ work' = r.committed
          /\ txState' = "closed"
    /\ file' = mark_url_as_scraped(file, wishlist_urls[urlIdx])
    /\ NextWishlist
    /\ logged' = {LogCall(quiet, "marked", "info"), LogCall(quiet, "finished", "info")}
    /\ UNCHANGED <<priceVars, page_name, wishlist_urls, attempt, pageVars, old_data,
                   now, okLog, failedAt, pageFailed, quiet>>

\* the process is killed: what the open transaction wrote is lost
Crash ==
    /\ pc \notin {"done", "exit1", "crashed"}
    /\ pc' = "crashed"
    /\ work' = committed
    /\ txState' = "closed"
    /\ old_data' = {}
    /\ attempt' = 0
    /\ wishlist_name' = ""
    /\ pageNo' = 0
    /\ nItems' = 0
    /\ idx' = 0
    /\ item' = NoItem
    /\ extracted' = NoExtract
    /\ logged' = {}
    /\ UNCHANGED <<priceVars, fileVars, committed, now, okLog, failedAt, pageFailed,
                   quiet>>

Next ==
    \/ get_wishlist_url
    \/ OpenBrowser
    \/ retry_request
    \/ Prepare
    \/ LoadPage
    \/ ProcessItem
    \/ ExecUpsert
    \/ ExecHistory
    \/ StatementFails
    \/ CommitItem
    \/ NextPage
    \/ FinishWishlist
    \/ Crash

Spec == Init /\ [][Next]_vars

\* the same run, with or without --quiet
InitQuiet ==
    /\ RunInit
    /\ quiet \in BOOLEAN
    /\ pc = "start"
    /\ file \in Files
    /\ page_name \in {"Gifts", None}
    /\ wishlist_name = ""
    /\ item = NoItem
    /\ price_in = NoneStr
    /\ price_out = NoneDec

SpecQuiet == InitQuiet /\ [][Next]_vars

\* ------------------------------------------------- clean_price on its own
PriceChars == {"0", "1", ".", "$", ","}

PriceInputs == {NoneStr} \cup UNION {[1..n -> PriceChars] : n \in 0..MaxLen}

InitPrice ==
    /\ RunInit
    /\ quiet = FALSE
    /\ pc = "clean_price"
    /\ file = [exists |-> FALSE, lines |-> <<>>]
    /\ page_name = None
    /\ wishlist_name = ""
    /\ item = NoItem
    /\ price_in \in PriceInputs
    /\ price_out = NoneDec

CleanPrice ==
    /\ pc = "clean_price"
    /\ price_out' = clean_price(price_in)
    /\ pc' = "cleaned"
    /\ UNCHANGED <<price_in, fileVars, attempt, pageVars, storeVars, pageFailed,
                   quiet, logged>>

SpecPrice == InitPrice /\ [][CleanPrice]_vars

\* ------------------------------------------- the extraction of one item
InitExtract ==
    /\ RunInit
    /\ quiet = FALSE
    /\ pc = "extract"
    /\ file = [exists |-> FALSE, lines |-> <<>>]
    /\ page_name = None
    /\ wishlist_name \in {"Gifts", "", "Unknown Wishlist"}
    /\ item \in ExtractItems
    /\ price_in = NoneStr
    /\ price_out = NoneDec

ExtractFields ==
    /\ pc = "extract"
    /\ extracted' = ExtractItem(item, wishlist_name)
    /\ pc' = "extracted"
    /\ logged' = ExtractLog(item, quiet)
    /\ UNCHANGED <<priceVars, fileVars, attempt, wishlist_name, pageNo, nItems, idx,
                   item, storeVars, pageFailed, quiet>>

SpecExtract == InitExtract /\ [][ExtractFields]_vars

\* ============================================================== claims
\* the rows of product_data_history without their updated_at
HistoryData(hist) == [i \in 1..Len(hist) |-> hist[i].data]

\* no statement is between its start and the commit that follows it
Settled == pc \notin {"upsert", "history", "commit", "crashed"}

KnownAsins ==
    {okLog[i].asin : i \in 1..Len(okLog)} \cup {r.asin : r \in committed.cur}
        \cup {committed.hist[i].data.asin : i \in 1..Len(committed.hist)}

WritesOf(a) == SelectSeq(okLog, LAMBDA v : v.asin = a)

\* C1: after any sequence of successful writes, product_data holds exactly one
\* row per written identifier, equal to the last record written for it, and the
\* history rows of that identifier are, in order, the records written before
\* the last one (the pre-update values); after a first write there is none.
C1_CurrentIsLastHistoryIsEarlier ==
    Settled =>
        \A a \in KnownAsins :
            LET ws == WritesOf(a)
                rows == {r \in committed.cur : r.asin = a}
                hs == SelectSeq(HistoryData(committed.hist), LAMBDA r : r.asin = a)
            IN IF ws = <<>> THEN rows = {} /\ hs = <<>>
               ELSE rows = {ws[Len(ws)]} /\ hs = SubSeq(ws, 1, Len(ws) - 1)

\* an identifier written twice with different values, both writes committed
C1_Witness ==
    /\ Settled
    /\ \E a \in KnownAsins :
          /\ Len(WritesOf(a)) = 2
          /\ WritesOf(a)[1] # WritesOf(a)[2]
          /\ Len(committed.hist) = 1

\* both effects of one write on a store: the row overwritten and its pre-image,
\* if there was one, appended to the history
BothEffects(store, values, t) ==
    LET pre == {r \in store.cur : r.asin = values.asin}
    IN [cur |-> (store.cur \ pre) \cup {values},
        hist |-> IF pre = {} THEN store.hist
                 ELSE store.hist \o <<[data |-> CHOOSE r \in pre : TRUE,
                                      updated_at |-> t]>>]

\* C2: the committed store changes only by a whole write: every step that
\* changes it leaves it with both effects of the write in flight, so it never
\* holds an overwritten row without its history row or the reverse, also when
\* the statement failed and the caller committed.
C2_WriteIsAtomic ==
    [][committed' # committed =>
          committed' = BothEffects(committed, Values(extracted.product_data), now)]_vars

\* a statement failed after overwriting the row, and the caller is about to commit
C2_Witness ==
    /\ pc = "commit"
    /\ txState = "aborted"
    /\ work.cur # committed.cur
    /\ committed.cur # {}

AsinAbsent(f, name) ==
    ~ExtractItem(f, name).raised /\ ExtractItem(f, name).product_data.asin = None

\* C3: an item whose asin is absent causes no store write: the item loop does
\* not call update_product_in_postgresql for it and neither table, nor the
\* transaction, changes; no statement ever runs for a record without asin.
C3_AbsentAsinWritesNothing ==
    /\ [][(pc = "item" /\ AsinAbsent(item, wishlist_name) /\ pc' # "crashed") =>
             /\ committed' = committed
             /\ work' = work
             /\ txState' = txState
             /\ now' = now
             /\ okLog' = okLog
             /\ pc' \in {"item", "next_page"}]_vars
    /\ [](pc \in {"upsert", "history"} => extracted.product_data.asin # None)

\* an item without asin is about to be processed while the store holds rows
C3_Witness ==
    /\ pc = "item"
    /\ AsinAbsent(item, wishlist_name)
    /\ committed.cur # {}

\* the store a sequence of whole writes leaves, without timestamps
RECURSIVE Replay(_)
Replay(log) ==
    IF log = <<>> THEN [cur |-> {}, hist |-> <<>>]
    ELSE LET before == Replay(SubSeq(log, 1, Len(log) - 1))
             values == log[Len(log)]
             pre == {r \in before.cur : r.asin = values.asin}
         IN [cur |-> (before.cur \ pre) \cup {values},
             hist |-> IF pre = {} THEN before.hist
                      ELSE Append(before.hist, CHOOSE r \in pre : TRUE)]

Durable == [cur |-> committed.cur, hist |-> HistoryData(committed.hist)]

\* C4: writes are committed item by item: at every point, a crash included,
\* the committed store holds every record written successfully, except at most
\* the one of the item in flight.
C4_CommittedPerItem ==
    \/ Durable = Replay(okLog)
    \/ /\ pc \in {"commit", "crashed"}
       /\ okLog # <<>>
       /\ Durable = Replay(SubSeq(okLog, 1, Len(okLog) - 1))

\* the process crashed with the second written item in flight: the first is kept
C4_Witness ==
    /\ pc = "crashed"
    /\ Len(okLog) = 2
    /\ Durable = Replay(SubSeq(okLog, 1, 1))
    /\ Durable # Replay(okLog)

\* C5: a failed statement does not end the item loop: after it the caller's
\* commit ends the aborted transaction and the loop moves to the next item (or
\* to the page's end), and no item starts in an aborted transaction, so later
\* items can be written and committed.
C5_StoreFailureDoesNotAbort ==
    /\ [][(pc = "commit" /\ txState = "aborted" /\ pc' # "crashed") =>
             /\ txState' = "idle"
             /\ work' = committed
             /\ committed' = committed
             /\ IF idx < nItems THEN pc' = "item" /\ idx' = idx + 1
                ELSE pc' = "next_page"]_vars
    /\ [](pc = "item" => txState = "idle")

\* after a statement of this wishlist failed, a later item was written and committed
C5_Witness ==
    /\ failedAt >= 0
    /\ Len(okLog) > failedAt
    /\ pc \in {"item", "next_page"}
    /\ okLog[Len(okLog)] \in committed.cur

\* C6: an address is marked as scraped only after full processing: never when
\* its page loop ended on a page-level failure.
C6_MarkedOnlyAfterFullProcessing == [][file' # file => ~pageFailed]_vars

\* C7: an address is tried at most 3 times, stopping at the first success;
\* when the third try fails the wishlist is skipped: nothing is extracted or
\* written for it, its line is not marked, and the loop is at the next address.
C7_RetriesThenSkips ==
    [][(pc = "retry" /\ pc' # "crashed") =>
          /\ attempt' = attempt + 1
          /\ attempt' <= 3
          /\ pc' = "retry" => attempt' < 3
          /\ pc' \notin {"retry", "prepare"} =>
                /\ attempt' = 3
                /\ file' = file
                /\ committed' = committed
                /\ work' = work
                /\ okLog' = okLog
                /\ now' = now
                /\ urlIdx' = urlIdx + 1
                /\ pc' = IF urlIdx < Len(wishlist_urls) THEN "wishlist" ELSE "done"]_vars

\* the first address was given up after three tries and is not marked; the
\* loop is at the second address
C7_Witness ==
    /\ pc = "wishlist"
    /\ attempt = 3
    /\ urlIdx = 2
    /\ \A i \in 1..Len(file.lines) :
          file.lines[i].url = wishlist_urls[1] => ~file.lines[i].hash

\* the result the first-decimal-collapse rule gives: the text without the
\* characters that are neither digits nor dots, runs of dots made one dot, cut
\* before a second dot, read as a decimal
SecondDot(str) ==
    IF CountDots(str) < 2 THEN 0
    ELSE CHOOSE i \in 1..Len(str) :
            str[i] = "." /\ Cardinality({j \in 1..(i - 1) : str[j] = "."}) = 1

FirstDecimalCollapse(price) ==
    IF price = NoneStr \/ price = <<>> THEN NoneDec
    ELSE LET kept == CollapseDots(SelectSeq(price, LAMBDA c : IsDigit(c) \/ c = "."))
             cut == IF SecondDot(kept) = 0 THEN kept
                    ELSE SubSeq(kept, 1, SecondDot(kept) - 1)
         IN IF \E i \in 1..Len(cut) : IsDigit(cut[i]) THEN FloatVal(cut) ELSE NoneDec

\* C8: clean_price returns, for every input, what the first-decimal-collapse
\* rule gives ("12.34.56" cleans to 12.34), and null for None, empty or
\* unparseable input.
C8_CleanPriceMatchesReference ==
    pc = "cleaned" => price_out = FirstDecimalCollapse(price_in)

InUnitInterval(d) == d.n >= 0 /\ d.n <= Pow10(d.s)

\* C9: the price_drop_percent of every extracted item, and of every row
\* written to the store, is in [0, 1].
C9_DropPercentInUnitInterval ==
    /\ pc \in {"upsert", "history", "commit"} =>
          InUnitInterval(extracted.product_data.price_drop_percent)
    /\ \A r \in work.cur \cup committed.cur : InUnitInterval(r.price_drop_percent)

\* C10: the extraction of an item never raises past a field: whatever the
\* item's sub-elements, no exception leaves a field's try block and the
\* product record is built.
C10_ExtractionNeverRaises == pc = "extracted" => ~extracted.raised

\* every line of the input list carries the comment marker and nothing of it
\* has been read yet
AllCommented ==
    /\ file.exists
    /\ urlIdx = 0
    /\ \A i \in 1..Len(file.lines) : file.lines[i].hash

\* C11: when the input list holds only comment-prefixed lines the run
\* processes no wishlist (no browser, no connection, no write) and exits
\* cleanly: it does not end in the error exit and logs no error.
C11_AllCommentedExitsCleanly ==
    AllCommented =>
        /\ pc # "exit1"
        /\ \A l \in logged : l.level # "error"
        /\ committed = EmptyStore
        /\ txState = "closed"

\* what the run reports as errors: input, load, connection, wishlist name,
\* page, item and store failures
ErrorEvents ==
    {"input_error", "load_failed", "connect_error", "name_error", "mismatch",
     "page_error", "item_failed", "store_failure"}

\* C12: with --quiet every error event of the run, a store failure caught in
\* update_product_in_postgresql included, still prints its line, and no line
\* other than an error-level one (the retry notice included) is printed.
C12_QuietPrintsErrorsOnly ==
    quiet =>
        \A l \in logged :
            /\ l.event \in ErrorEvents => l.shown
            /\ l.shown => l.level = "error"

\* the cleaned candidates of the price, in order: the data-price attribute,
\* the off-screen span, the whole and fraction spans joined by a dot
PriceCandidates(p) ==
    << clean_price(p.data),
       IF p.offscreen.found THEN clean_price(p.offscreen.text) ELSE NoneDec,
       IF /\ p.whole.found /\ p.fraction.found
          /\ Strip(p.whole.text) # <<>> /\ Strip(p.fraction.text) # <<>>
       THEN clean_price(Strip(p.whole.text) \o <<".">> \o Strip(p.fraction.text))
       ELSE NoneDec >>

FirstCleanCandidate(p) ==
    LET c == PriceCandidates(p)
        ok == {i \in 1..Len(c) : c[i] # NoneDec}
    IN IF ok = {} THEN Zero
       ELSE c[CHOOSE i \in ok : \A j \in ok : i <= j]

\* C13: the price of an extracted item is the first of the three candidates
\* whose cleaned value is not null, and 0.0 only when all three fail: an
\* unparseable data-price or a missing off-screen span does not end the chain.
C13_PriceIsFirstCleanCandidate ==
    (pc = "extracted" /\ ~extracted.raised) =>
        extracted.product_data.price = FirstCleanCandidate(item.price)

\* both sub-patterns of the price-drop annotation match
BothDropPatternsMatch(e) ==
    e.found /\ WasMatches(e.text) # {} /\ DropMatches(e.text) # {}

\* C14: when the price-drop annotation is absent, or one of its two
\* sub-patterns does not match, the record has price_added equal to the
\* current price and price_drop_percent equal to 0.0.
C14_DropDefaultsUnlessBothMatch ==
    (pc = "extracted" /\ ~extracted.raised /\ ~BothDropPatternsMatch(item.drop)) =>
        /\ extracted.product_data.price_added = extracted.product_data.price
        /\ extracted.product_data.price_drop_percent = Zero

\* C15: a page-level failure (time-out, no items, count mismatch) ends the
\* page loop of its wishlist with no item of the page processed and nothing
\* written, and the run goes on after the loop: the wishlist is closed and the
\* next address of the list, if any, is taken up.
C15_PageFailureEndsOnlyThisWishlist ==
    [][/\ (pc = "page" /\ pc' \notin {"item", "crashed"}) =>
            /\ pc' = "finish"
            /\ pageFailed'
            /\ UNCHANGED <<committed, work, txState, now, okLog, idx, item,
                           extracted, file, urlIdx>>
       /\ (pc = "finish" /\ pageFailed /\ pc' # "crashed") =>
            /\ pc' = IF urlIdx < Len(wishlist_urls) THEN "wishlist" ELSE "done"
            /\ urlIdx' = urlIdx + 1
            /\ UNCHANGED <<now, okLog>>]_vars

\* the second address is taken up after the page loop of the first ended on
\* a page-level failure
C15_Witness ==
    /\ pc = "wishlist"
    /\ urlIdx = 2
    /\ pageFailed

====
